---- MODULE Spec2Model ----
(***************************************************************************)
(* A model of spglib-rs: the safe facade (Cell, Dataset, Spacegroup,       *)
(* SpglibError) over the spglib symmetry engine.                           *)
(*                                                                         *)
(* The facade is modelled from src/src/*.rs.  The engine (the spg_*        *)
(* functions behind spglib-sys) is modelled from its contract, section 6   *)
(* of the specification, as a deterministic engine over one-dimensional    *)
(* crystals: a lattice is one signed basis length, a fractional coordinate *)
(* is a multiple of 1/Grid, and the primitive cell is found from the       *)
(* translations that map the set of atoms onto itself.                     *)
(***************************************************************************)
EXTENDS Integers, Sequences, FiniteSets, TLC

VARIABLES
    cell,      \* the caller's Cell: [lattice, positions, types]
    result,    \* what the last call of the facade returned, with the engine call it made
    heap       \* the engine-allocated blocks of the last spg_get_dataset call

vars == <<cell, result, heap>>

(***************************************************************************)
(* Bounds of the model.                                                    *)
(***************************************************************************)
MaxAtoms == 2          \* longest positions / types slice handed to Cell::new
MaxHall == 2           \* hall numbers 1..MaxHall are looked up
MaxOps == 2            \* longest rotations / translations slice of a caller
TypeSet == {1, 2}      \* atom type labels
Precisions == {1, 2}   \* symprec / eps, in units of 1/Grid
Flags == BOOLEAN

(***************************************************************************)
(* The engine's domain (modelled from the spec).                           *)
(***************************************************************************)
Grid == 2                          \* fractional coordinates are k/Grid, k in 0..Grid-1
UnitLattice == Grid * Grid         \* the basis length of the cells the caller builds
Coords == 0 .. (Grid - 1)

Abs(x) == IF x < 0 THEN -x ELSE x

Min(a, b) == IF a < b THEN a ELSE b

SeqsUpTo(S, n) == UNION { [1..m -> S] : m \in 0..n }

\* distance of two fractional coordinates on the circle of Grid points
Dist(p, q) == Min((p - q) % Grid, (q - p) % Grid)

\* the n atoms the engine is told about: the first n entries of each buffer
TooClose(pos, n, symprec) ==
    \E i, j \in 1..n : i < j /\ Dist(pos[i], pos[j]) < symprec

\* the engine finds no symmetry: singular lattice, no atoms, or overlapping atoms
EngineRejects(lattice, pos, n, symprec) ==
    lattice = 0 \/ n = 0 \/ TooClose(pos, n, symprec)

Sites(pos, typ, n) == { <<pos[i], typ[i]>> : i \in 1..n }

Shifted(A, s) == { <<(a[1] + s) % Grid, a[2]>> : a \in A }

\* the numbers k such that the translation by 1/k of the cell is a symmetry
Periods(A) == { k \in 1..Grid : Grid % k = 0 /\ Shifted(A, Grid \div k) = A }

MaxOf(S) == CHOOSE m \in S : \A x \in S : x <= m

\* the order of the cell's pure translation group
Multiplicity(pos, typ, n) == MaxOf(Periods(Sites(pos, typ, n)))

\* the subsequence of s at the (increasing) indices of I
RECURSIVE Pick(_, _, _)
Pick(s, I, i) ==
    IF i > Len(s) THEN << >>
    ELSE (IF i \in I THEN <<s[i]>> ELSE << >>) \o Pick(s, I, i + 1)

\* idealization turns the basis vector to the positive direction, which
\* mirrors the fractional coordinates
Mirror(pos, lattice) ==
    IF lattice < 0 THEN [i \in DOMAIN pos |-> (Grid - pos[i]) % Grid] ELSE pos

(***************************************************************************)
(* spg_standardize_cell(lattice, positions, types, n, to_primitive,        *)
(* no_idealize, symprec): 0 on failure, else the number of atoms of the    *)
(* standardized cell, which it has written to the front of the buffers.    *)
(* pos and typ are what the engine reads: n entries each.                  *)
(***************************************************************************)
spg_standardize_cell(lattice, pos, typ, n, to_primitive, no_idealize, symprec) ==
    IF EngineRejects(lattice, pos, n, symprec)
    THEN [status |-> 0, lattice |-> lattice, positions |-> << >>, types |-> << >>]
    ELSE
        LET flip == (~no_idealize) /\ lattice < 0
            lat  == IF flip THEN -lattice ELSE lattice
            p    == IF flip THEN Mirror(pos, lattice) ELSE pos
            k    == IF to_primitive THEN Multiplicity(p, typ, n) ELSE 1
            keep == { i \in 1..n : p[i] < Grid \div k }
            q    == Pick(SubSeq(p, 1, n), keep, 1)
        IN  [status    |-> Cardinality(keep),
             lattice   |-> lat \div k,
             positions |-> [i \in DOMAIN q |-> (q[i] * k) % Grid],
             types     |-> Pick(SubSeq(typ, 1, n), keep, 1)]

\* spg_delaunay_reduce / spg_niggli_reduce(lattice, eps): 0 on failure, else
\* 1 with the reduced basis written to the lattice buffer
spg_delaunay_reduce(lattice, eps) ==
    IF lattice = 0 THEN [status |-> 0, lattice |-> lattice]
    ELSE [status |-> 1, lattice |-> Abs(lattice)]

spg_niggli_reduce(lattice, eps) ==
    IF lattice = 0 THEN [status |-> 0, lattice |-> lattice]
    ELSE [status |-> 1, lattice |-> Abs(lattice)]

(***************************************************************************)
(* error.rs: the error kinds and the translation of the engine's codes.    *)
(***************************************************************************)
SpglibError ==
    { "SpacegroupSearchFailed", "CellStandardizationFailed",
      "SymmetryOperationSearchFailed", "AtomsTooClose", "PointgroupNotFound",
      "NiggliFailed", "DelaunayFailed", "ArraySizeShortage", "Unknown" }

\* From with the arms of codes 6 and 7 exchanged
FromSwapped(item) ==
    CASE item = 1 -> "SpacegroupSearchFailed"
      [] item = 2 -> "CellStandardizationFailed"
      [] item = 3 -> "SymmetryOperationSearchFailed"
      [] item = 4 -> "AtomsTooClose"
      [] item = 5 -> "PointgroupNotFound"
      [] item = 6 -> "DelaunayFailed"
      [] item = 7 -> "NiggliFailed"
      [] item = 8 -> "ArraySizeShortage"
      [] OTHER    -> "Unknown"

\* impl From<ffi::SpglibError> for SpglibError
From(item) ==
    CASE item = 1 -> "SpacegroupSearchFailed"
      [] item = 2 -> "CellStandardizationFailed"
      [] item = 3 -> "SymmetryOperationSearchFailed"
      [] item = 4 -> "AtomsTooClose"
      [] item = 5 -> "PointgroupNotFound"
      [] item = 6 -> "NiggliFailed"
      [] item = 7 -> "DelaunayFailed"
      [] item = 8 -> "ArraySizeShortage"
      [] OTHER    -> "Unknown"

\* the codes handed to From: the engine's nine, and codes outside them
Codes == (-2 .. 10) \cup {99}

(***************************************************************************)
(* cell.rs: Cell and its in-place transforms.                              *)
(***************************************************************************)
\* Cell::new copies its three arguments
CellNew(lattice, positions, types) ==
    [lattice |-> lattice, positions |-> positions, types |-> types]

\* the values a caller may hand to Cell::new
Lattices == { -UnitLattice, 0, UnitLattice }

Cells ==
    { CellNew(l, p, t) : l \in Lattices,
                         p \in SeqsUpTo(Coords, MaxAtoms),
                         t \in SeqsUpTo(TypeSet, MaxAtoms) }

\* the atom count every engine call is given: positions.len() as c_int
NumAtoms(c) == Len(c.positions)

\* What the engine finds behind types.as_ptr() when told to read n entries:
\* the Vec's elements, then (past its end) whatever lies there.
JunkSets(c) ==
    IF Len(c.types) >= NumAtoms(c) THEN { << >> }
    ELSE [1 .. (NumAtoms(c) - Len(c.types)) -> TypeSet]

TypesRead(c, junk) ==
    IF Len(c.types) >= NumAtoms(c) THEN SubSeq(c.types, 1, NumAtoms(c))
    ELSE c.types \o junk

\* the engine writes m entries through buf.as_ptr(); the Vec keeps its length
\* and the entries the engine did not write
WrittenInPlace(buf, out, m) ==
    [i \in DOMAIN buf |-> IF i <= m THEN out[i] ELSE buf[i]]

\* the engine call standardize, Dataset::new and the reductions record
EngineCall(c) ==
    [n |-> NumAtoms(c), lenPositions |-> Len(c.positions), lenTypes |-> Len(c.types)]

\* if res == 0 { return Err(..) } Ok(())
standardize_ret(res) == IF res = 0 THEN "CellStandardizationFailed" ELSE "Ok"

delaunay_ret(res) == IF res = 0 THEN "DelaunayFailed" ELSE "Ok"

\* niggli_reduce with the error of delaunay_reduce, from which it was copied
niggli_ret_copied(res) == IF res = 0 THEN "DelaunayFailed" ELSE "Ok"

niggli_ret(res) == IF res = 0 THEN "NiggliFailed" ELSE "Ok"

\* a panic or a fault ends the program
Alive == result.outcome = "returned"

\* The caller follows the control flow of the facade: it transforms its Cell,
\* then asks for the Dataset of the Cell it has arrived at.
Transforming ==
    /\ Alive
    /\ result.op \in {"none", "standardize", "delaunay_reduce", "niggli_reduce"}

\* the lattice can be divided once more within the model's integers
Representable(c, junk, to_primitive, symprec) ==
    \/ ~to_primitive
    \/ EngineRejects(c.lattice, c.positions, NumAtoms(c), symprec)
    \/ c.lattice % Multiplicity(c.positions, TypesRead(c, junk), NumAtoms(c)) = 0

Standardize(to_primitive, no_idealize, symprec) ==
    /\ Transforming
    /\ \E junk \in JunkSets(cell) :
        /\ Representable(cell, junk, to_primitive, symprec)
        /\ LET out == spg_standardize_cell(cell.lattice, cell.positions,
                          TypesRead(cell, junk), NumAtoms(cell),
                          to_primitive, no_idealize, symprec)
               res == out.status
           IN  /\ cell' = [lattice   |-> out.lattice,
                           positions |-> WrittenInPlace(cell.positions, out.positions, res),
                           types     |-> WrittenInPlace(cell.types, out.types, res)]
               /\ result' = [op |-> "standardize", outcome |-> "returned",
                             ret |-> standardize_ret(res), res |-> res,
                             to_primitive |-> to_primitive,
                             no_idealize |-> no_idealize, symprec |-> symprec,
                             call |-> EngineCall(cell), before |-> cell]
    /\ UNCHANGED heap

\* delaunay_reduce with the engine call of standardize, from which it was
\* copied: the engine is handed positions and types and rewrites them in place
DelaunayReduceWhole(eps) ==
    /\ Transforming
    /\ \E junk \in JunkSets(cell) :
        /\ Representable(cell, junk, TRUE, eps)
        /\ LET out == spg_standardize_cell(cell.lattice, cell.positions,
                          TypesRead(cell, junk), NumAtoms(cell), TRUE, FALSE, eps)
           IN  /\ cell' = [lattice   |-> out.lattice,
                           positions |-> WrittenInPlace(cell.positions, out.positions,
                                                        out.status),
                           types     |-> WrittenInPlace(cell.types, out.types, out.status)]
               /\ result' = [op |-> "delaunay_reduce", outcome |-> "returned",
                             ret |-> delaunay_ret(out.status), res |-> out.status,
                             eps |-> eps, before |-> cell]
    /\ UNCHANGED heap

DelaunayReduce(eps) ==
    /\ Transforming
    /\ LET out == spg_delaunay_reduce(cell.lattice, eps)
       IN  /\ cell' = [cell EXCEPT !.lattice = out.lattice]
           /\ result' = [op |-> "delaunay_reduce", outcome |-> "returned",
                         ret |-> delaunay_ret(out.status), res |-> out.status,
                         eps |-> eps, before |-> cell]
    /\ UNCHANGED heap

NiggliReduce(eps) ==
    /\ Transforming
    /\ LET out == spg_niggli_reduce(cell.lattice, eps)
       IN  /\ cell' = [cell EXCEPT !.lattice = out.lattice]
           /\ result' = [op |-> "niggli_reduce", outcome |-> "returned",
                         ret |-> niggli_ret(out.status), res |-> out.status,
                         eps |-> eps, before |-> cell]
    /\ UNCHANGED heap

\* SpglibError::from(code)
ErrorFrom(code) ==
    /\ Alive
    /\ result' = [op |-> "from", outcome |-> "returned", ret |-> From(code),
                  code |-> code]
    /\ UNCHANGED <<cell, heap>>

(***************************************************************************)
(* Text fields: the engine's NUL-terminated char arrays, and their         *)
(* decoding CString::from(CStr::from_ptr(p)).to_str().                     *)
(***************************************************************************)
\* "AB", "e-acute" (two bytes), and 'A' followed by a byte no UTF-8 text holds
TextBufs == { <<65, 66, 0>>, <<195, 169, 0>>, <<65, 255, 0>> }

\* CStr::from_ptr: the bytes before the first NUL
RECURSIVE CStrBytes(_)
CStrBytes(buf) ==
    IF buf = << >> \/ Head(buf) = 0 THEN << >>
    ELSE <<Head(buf)>> \o CStrBytes(Tail(buf))

\* to_str: UTF-8 validation (one- and two-byte sequences; every other lead
\* byte of the buffers above is invalid)
RECURSIVE Utf8Valid(_)
Utf8Valid(b) ==
    IF b = << >> THEN TRUE
    ELSE IF b[1] < 128 THEN Utf8Valid(Tail(b))
    ELSE IF b[1] >= 194 /\ b[1] <= 223
         THEN Len(b) >= 2 /\ b[2] >= 128 /\ b[2] <= 191 /\ Utf8Valid(Tail(Tail(b)))
    ELSE FALSE

\* match ...to_str() { Ok(s) => String::from(s), Err(_) => return Err(Unknown) }
Decode(buf) ==
    IF Utf8Valid(CStrBytes(buf))
    THEN [ok |-> TRUE, text |-> CStrBytes(buf)]
    ELSE [ok |-> FALSE, text |-> << >>]

(***************************************************************************)
(* dataset.rs: Dataset::new and the marshaling of the engine's record.     *)
(***************************************************************************)
\* the null handle, and the absence of a value
NULL == [null |-> TRUE]

\* the engine's allocations for one dataset: the record and its nine arrays
ArrayFields ==
    << "rotations", "translations", "wyckoffs", "equivalent_atoms",
       "crystallographic_orbits", "mapping_to_primitive", "std_types",
       "std_positions", "std_mapping_to_primitive" >>

TextFields == { "international_symbol", "hall_symbol", "choice", "pointgroup_symbol" }

Blocks == { ArrayFields[i] : i \in DOMAIN ArrayFields } \cup { "header" }

\* a block: whether it is allocated / freed, how many containers have adopted
\* it, how often it was released
NoBlock == [state |-> "none", adopted |-> 0, released |-> 0]

EngineBlock == [state |-> "allocated", adopted |-> 0, released |-> 0]

NoHeap == [b \in Blocks |-> NoBlock]

\* spg_get_dataset(lattice, positions, types, n, symprec): NULL on failure,
\* else a record it has allocated, with each array in a block of its own
spg_get_dataset(lattice, pos, typ, n, symprec, texts) ==
    IF EngineRejects(lattice, pos, n, symprec) THEN NULL
    ELSE
        LET k == Multiplicity(pos, typ, n)
        IN  [ spacegroup_number        |-> k,
              hall_number              |-> k,
              international_symbol     |-> texts["international_symbol"],
              hall_symbol              |-> texts["hall_symbol"],
              choice                   |-> texts["choice"],
              n_operations             |-> k,
              rotations                |-> "rotations",
              translations             |-> "translations",
              n_atoms                  |-> n,
              wyckoffs                 |-> "wyckoffs",
              equivalent_atoms         |-> "equivalent_atoms",
              crystallographic_orbits  |-> "crystallographic_orbits",
              mapping_to_primitive     |-> "mapping_to_primitive",
              n_std_atoms              |-> n \div k,
              std_types                |-> "std_types",
              std_positions            |-> "std_positions",
              std_mapping_to_primitive |-> "std_mapping_to_primitive",
              pointgroup_symbol        |-> texts["pointgroup_symbol"] ]

\* the steps of try_from in the order of the code: a text field decoded, or
\* an array adopted with the count field that gives its length
Steps ==
    << [kind |-> "text",  field |-> "international_symbol"],
       [kind |-> "text",  field |-> "hall_symbol"],
       [kind |-> "text",  field |-> "choice"],
       [kind |-> "adopt", field |-> "rotations",                count |-> "n_operations"],
       [kind |-> "adopt", field |-> "translations",             count |-> "n_operations"],
       [kind |-> "adopt", field |-> "wyckoffs",                 count |-> "n_atoms"],
       [kind |-> "adopt", field |-> "equivalent_atoms",         count |-> "n_atoms"],
       [kind |-> "adopt", field |-> "crystallographic_orbits",  count |-> "n_atoms"],
       [kind |-> "adopt", field |-> "mapping_to_primitive",     count |-> "n_atoms"],
       [kind |-> "adopt", field |-> "std_types",                count |-> "n_std_atoms"],
       [kind |-> "adopt", field |-> "std_positions",            count |-> "n_std_atoms"],
       [kind |-> "adopt", field |-> "std_mapping_to_primitive", count |-> "n_std_atoms"],
       [kind |-> "text",  field |-> "pointgroup_symbol"] >>

\* Vec::from_raw_parts(ptr.<field>, n as usize, n as usize): the pointer and
\* the length each call is given (the counts are not negative)
\* translations adopted from the pointer of rotations
AdoptPtrAliased(raw, step) ==
    IF step.field = "translations" THEN raw["rotations"] ELSE raw[step.field]

AdoptPtr(raw, step) == raw[step.field]

\* std_types adopted with n_atoms for its length
AdoptLenAtoms(raw, step) ==
    IF step.field = "std_types" THEN raw["n_atoms"] ELSE raw[step.count]

AdoptLen(raw, step) == raw[step.count]

\* Vec::from_raw_parts: the Vec owns the block from now on
from_raw_parts(h, ptr, len) ==
    [ vec  |-> [ptr |-> ptr, len |-> len],
      heap |-> [h EXCEPT ![ptr].state = "owned", ![ptr].adopted = @ + 1] ]

\* drop(Vec): the block goes back to the allocator
DropVec(h, v) ==
    [h EXCEPT ![v.ptr].state = "freed", ![v.ptr].released = @ + 1]

\* the Vecs of `owned` (a function on some of the array fields) dropped in turn
RECURSIVE DropAll(_, _, _)
DropAll(h, owned, i) ==
    IF i > Len(ArrayFields) THEN h
    ELSE DropAll(IF ArrayFields[i] \in DOMAIN owned
                 THEN DropVec(h, owned[ArrayFields[i]]) ELSE h,
                 owned, i + 1)

\* try_from from step i on: done holds the locals built so far.  An early
\* return drops the locals; the record behind the pointer is not touched.
RECURSIVE Marshal(_, _, _, _)
Marshal(raw, i, done, h) ==
    IF i > Len(Steps)
    THEN [ret |-> "Ok", heap |-> h,
          value |-> [ spacegroup_number |-> raw.spacegroup_number,
                      hall_number |-> raw.hall_number,
                      n_operations |-> raw.n_operations,
                      n_atoms |-> raw.n_atoms,
                      n_std_atoms |-> raw.n_std_atoms,
                      site_symmetry_symbols |-> << >>,
                      text |-> done.text,
                      vecs |-> done.vecs ]]
    ELSE
        LET step == Steps[i]
        IN  IF step.kind = "text"
            THEN LET d == Decode(raw[step.field])
                 IN  IF d.ok
                     THEN Marshal(raw, i + 1,
                                  [done EXCEPT !.text = (step.field :> d.text) @@ @], h)
                     ELSE [ret |-> "Unknown", heap |-> DropAll(h, done.vecs, 1),
                           value |-> NULL]
            ELSE LET a == from_raw_parts(h, AdoptPtr(raw, step), AdoptLen(raw, step))
                 IN  Marshal(raw, i + 1,
                             [done EXCEPT !.vecs = (step.field :> a.vec) @@ @], a.heap)

\* impl TryFrom<SpglibDatasetPointer> for Dataset
try_from(raw, h) == Marshal(raw, 1, [text |-> << >>, vecs |-> << >>], h)

\* Result::unwrap
Unwrap(r) == IF r.ret = "Ok" THEN "returned" ELSE "panic"

\* Dataset::new(cell, symprec).  texts: the text the engine writes into its
\* record.  try_from dereferences the handle whatever it is: on NULL the
\* behaviour is undefined (a fault, or anything else).  heap follows the
\* blocks of one dataset, so the caller holds one Dataset at a time.
DatasetNew(symprec, texts) ==
    /\ Alive /\ result.op # "Dataset::new"
    /\ \E junk \in JunkSets(cell) :
         LET raw == spg_get_dataset(cell.lattice, cell.positions,
                        TypesRead(cell, junk), NumAtoms(cell), symprec, texts)
         IN  IF raw = NULL
             THEN /\ \E u \in {"fault", "undefined"} :
                        result' = [op |-> "Dataset::new", outcome |-> u, raw |-> NULL,
                                   ret |-> "none", value |-> NULL, symprec |-> symprec,
                                   call |-> EngineCall(cell), before |-> cell]
                  /\ heap' = NoHeap
             ELSE LET r == try_from(raw, [b \in Blocks |-> EngineBlock])
                  IN  /\ result' = [op |-> "Dataset::new", outcome |-> Unwrap(r),
                                    raw |-> raw, ret |-> r.ret, value |-> r.value,
                                    symprec |-> symprec,
                                    call |-> EngineCall(cell), before |-> cell]
                      /\ heap' = r.heap
    /\ UNCHANGED cell

\* the caller lets go of the Dataset it was returned: its Vecs are dropped
DropDataset ==
    /\ result.op = "Dataset::new" /\ result.outcome = "returned"
    /\ heap' = DropAll(heap, result.value.vecs, 1)
    /\ result' = [op |-> "drop", outcome |-> "returned"]
    /\ UNCHANGED cell

(***************************************************************************)
(* spacegroup.rs: Spacegroup::from_hall_number.                            *)
(***************************************************************************)
\* the text fields of SpglibSpacegroupType in the order try_from decodes them
SgTextFields ==
    << "international_short", "international_full", "international",
       "schoenflies", "hall_symbol", "choice", "pointgroup_international",
       "pointgroup_schoenflies", "arithmetic_crystal_class_symbol" >>

SgFieldSet == { SgTextFields[i] : i \in DOMAIN SgTextFields }

PlainText == <<65, 66, 0>>

\* the text the engine may return: plain text, but for at most one field
SgTexts ==
    { [f \in SgFieldSet |-> IF f = g THEN b ELSE PlainText] :
          g \in SgFieldSet, b \in TextBufs }

\* spg_get_spacegroup_type(hall_number): a record returned by value
spg_get_spacegroup_type(hall_number, texts) ==
    [number |-> hall_number, arithmetic_crystal_class_number |-> hall_number,
     text |-> texts]

\* impl TryFrom<ffi::SpglibSpacegroupType> for Spacegroup, from field i on
RECURSIVE SgMarshal(_, _, _)
SgMarshal(raw, i, done) ==
    IF i > Len(SgTextFields)
    THEN [ret |-> "Ok",
          value |-> [number |-> raw.number,
                     arithmetic_crystal_class_number |->
                         raw.arithmetic_crystal_class_number,
                     text |-> done]]
    ELSE LET f == SgTextFields[i]
             d == Decode(raw.text[f])
         IN  IF d.ok THEN SgMarshal(raw, i + 1, (f :> d.text) @@ done)
             ELSE [ret |-> "Unknown", value |-> NULL]

sg_try_from(raw) == SgMarshal(raw, 1, << >>)

\* Spacegroup::from_hall_number(hall_number)
FromHallNumber(hall_number, texts) ==
    /\ Alive
    /\ LET raw == spg_get_spacegroup_type(hall_number, texts)
           r   == sg_try_from(raw)
       IN  result' = [op |-> "from_hall_number", outcome |-> Unwrap(r),
                      raw |-> raw, ret |-> r.ret, value |-> r.value]
    /\ UNCHANGED <<cell, heap>>

(***************************************************************************)
(* lib.rs: hall_number_from_symmetry.                                      *)
(***************************************************************************)
\* a rotation of a one-dimensional crystal: the identity or the inversion
Rotations == {1, -1}

\* spg_get_hall_number_from_symmetry(rotations, translations, n, symprec):
\* the number of the group the n operations generate, 0 when it finds none
spg_get_hall_number_from_symmetry(rot, trans, n, symprec) ==
    IF n = 0 THEN 0
    ELSE Cardinality({ <<rot[i], trans[i]>> : i \in 1..n })

\* What the engine finds behind translations.as_ptr() when told to read n
\* entries: the slice's elements, then (past its end) whatever lies there.
TransJunkSets(n, translations) ==
    IF Len(translations) >= n THEN { << >> }
    ELSE [1 .. (n - Len(translations)) -> Coords]

TranslationsRead(n, translations, junk) ==
    IF Len(translations) >= n THEN SubSeq(translations, 1, n)
    ELSE translations \o junk

\* hall_number_from_symmetry(rotations, translations, symprec): the count the
\* engine is given is rotations.len() as i32
HallNumberFromSymmetry(rotations, translations, symprec) ==
    /\ Alive
    /\ LET n == Len(rotations)
       IN  \E junk \in TransJunkSets(n, translations) :
             result' = [op |-> "hall_number_from_symmetry", outcome |-> "returned",
                        ret |-> spg_get_hall_number_from_symmetry(rotations,
                                    TranslationsRead(n, translations, junk), n, symprec),
                        call |-> [n |-> n, lenRotations |-> Len(rotations),
                                  lenTranslations |-> Len(translations)]]
    /\ UNCHANGED <<cell, heap>>

(***************************************************************************)
(* The program: a caller builds a Cell and calls the facade.               *)
(***************************************************************************)
\* the text the engine may write into a dataset: plain, but for at most one field
DsTexts ==
    { [f \in TextFields |-> IF f = g THEN b ELSE PlainText] :
          g \in TextFields, b \in TextBufs }

Init ==
    /\ cell \in Cells
    /\ result = [op |-> "none", outcome |-> "returned"]
    /\ heap = NoHeap

Next ==
    \/ \E p, q \in Flags, s \in Precisions : Standardize(p, q, s)
    \/ \E e \in Precisions : DelaunayReduce(e)
    \/ \E e \in Precisions : NiggliReduce(e)
    \/ \E s \in Precisions, t \in DsTexts : DatasetNew(s, t)
    \/ DropDataset

Spec == Init /\ [][Next]_vars

(***************************************************************************)
(* The lookups and the extraction for one Cell: the body-centred cell of   *)
(* the documentation's examples (two atoms of one type, at 0 and at 1/2).  *)
(***************************************************************************)
BccCell == CellNew(UnitLattice, <<0, Grid \div 2>>, <<1, 1>>)

InitLookup ==
    /\ cell = BccCell
    /\ result = [op |-> "none", outcome |-> "returned"]
    /\ heap = NoHeap

NextLookup ==
    \/ \E s \in Precisions, t \in DsTexts : DatasetNew(s, t)
    \/ DropDataset
    \/ \E r \in SeqsUpTo(Rotations, MaxOps), t \in SeqsUpTo(Coords, MaxOps),
          s \in Precisions : HallNumberFromSymmetry(r, t, s)
    \/ \E h \in 1..MaxHall, t \in SgTexts : FromHallNumber(h, t)
    \/ \E c \in Codes : ErrorFrom(c)

SpecLookup == InitLookup /\ [][NextLookup]_vars

(***************************************************************************)
(* The claims.                                                             *)
(***************************************************************************)
Arrays == { ArrayFields[i] : i \in DOMAIN ArrayFields }

Extracted == result.op = "Dataset::new" /\ result.raw # NULL

\* The Cell the last call was made on kept the data model's invariant (as
\* many types as positions, at least one atom).  C2, C3, C5 and C10 are stated
\* for such Cells, so that what refutes them is not the ill-formed Cell of C4.
WellFormed(c) == Len(c.positions) = Len(c.types) /\ Len(c.positions) >= 1

\* C1: on every path of the marshaling, the early returns included, each
\* engine-allocated array is adopted into at most one container and its
\* memory is released at most once; the Vecs of a returned Dataset own
\* pairwise different blocks.
C1_SingleOwnership ==
    /\ \A b \in Blocks : heap[b].adopted <= 1 /\ heap[b].released <= 1
    /\ (Extracted /\ result.ret = "Ok") =>
          \A f, g \in Arrays :
              f # g => result.value.vecs[f].ptr # result.value.vecs[g].ptr

\* C1's case: the decoding of pointgroup_symbol fails after all nine arrays
\* were adopted, and the early return has released each of them once.
C1_Witness ==
    /\ Extracted /\ result.ret = "Unknown"
    /\ \A b \in Arrays : heap[b].adopted = 1 /\ heap[b].released = 1

\* C2: when the extraction has finished (returned or ended with an error), the
\* record's own header has been freed and every array is owned by the returned
\* Dataset or has been released.
C2_NoLeak ==
    (Extracted /\ WellFormed(result.before)
        /\ result.outcome \in {"returned", "panic"}) =>
        /\ heap["header"].state = "freed"
        /\ \A b \in Arrays :
              \/ heap[b].state = "freed"
              \/ /\ result.ret = "Ok"
                 /\ heap[b].state = "owned"
                 /\ \E f \in Arrays : result.value.vecs[f].ptr = b

\* C3: after standardize returns Ok, positions and types both have exactly
\* the atom count the engine reported for the standardized cell.
C3_StandardizedLength ==
    (result.op = "standardize" /\ result.ret = "Ok" /\ WellFormed(result.before)) =>
        /\ Len(cell.positions) = result.res
        /\ Len(cell.types) = result.res

\* C4: no call of standardize, delaunay_reduce, niggli_reduce or Dataset::new
\* reaches the engine with a Cell whose positions and types differ in length.
C4_LengthsMatchAtEngineCall ==
    (result.op \in {"standardize", "delaunay_reduce", "niggli_reduce", "Dataset::new"}) =>
        Len(result.before.positions) = Len(result.before.types)

\* C5: when spg_get_dataset returns NULL, Dataset::new returns to its caller
\* with one of the error kinds, and the absent record is not read.
C5_NullSurfacesAsError ==
    (result.op = "Dataset::new" /\ result.raw = NULL /\ WellFormed(result.before)) =>
        /\ result.outcome = "returned"
        /\ result.ret \in SpglibError

\* some text field of the engine's record does not decode
BadText ==
    \/ /\ Extracted
       /\ \E f \in TextFields : ~Decode(result.raw[f]).ok
    \/ /\ result.op = "from_hall_number"
       /\ \E f \in SgFieldSet : ~Decode(result.raw.text[f]).ok

\* C6: a text field that does not decode makes Dataset::new and
\* Spacegroup::from_hall_number return normally with the error Unknown.
C6_DecodingFailureReturned ==
    BadText => (result.outcome = "returned" /\ result.ret = "Unknown")

\* C7: in every Dataset returned, the two per-operation arrays have length
\* n_operations, the four per-atom arrays length n_atoms, the three arrays of
\* the standardized cell length n_std_atoms, and site_symmetry_symbols is empty.
C7_DeclaredLengths ==
    (Extracted /\ result.ret = "Ok") =>
        LET d == result.value
            v == d.vecs
        IN  /\ v["rotations"].len = d.n_operations
            /\ v["translations"].len = d.n_operations
            /\ v["wyckoffs"].len = d.n_atoms
            /\ v["equivalent_atoms"].len = d.n_atoms
            /\ v["crystallographic_orbits"].len = d.n_atoms
            /\ v["mapping_to_primitive"].len = d.n_atoms
            /\ v["std_types"].len = d.n_std_atoms
            /\ v["std_positions"].len = d.n_std_atoms
            /\ v["std_mapping_to_primitive"].len = d.n_std_atoms
            /\ d.site_symmetry_symbols = << >>

\* C7's case: a Dataset returned for a cell of two atoms whose standardized
\* cell has one, so that the three counts are not all the same.
C7_Witness ==
    /\ Extracted /\ result.ret = "Ok"
    /\ result.value.n_atoms = 2 /\ result.value.n_std_atoms = 1
    /\ result.value.n_operations = 2

\* the error kind of each transform
FailureOf(op) ==
    CASE op = "standardize"     -> "CellStandardizationFailed"
      [] op = "delaunay_reduce" -> "DelaunayFailed"
      [] op = "niggli_reduce"   -> "NiggliFailed"

\* C8: each transform returns Ok exactly when the engine's status is not 0,
\* and on status 0 the error kind of that transform.
C8_StatusToResult ==
    (result.op \in {"standardize", "delaunay_reduce", "niggli_reduce"}) =>
        /\ (result.ret = "Ok") <=> (result.res # 0)
        /\ (result.res = 0) => (result.ret = FailureOf(result.op))

\* C8's case: the engine has failed a Niggli reduction.
C8_Witness ==
    result.op = "niggli_reduce" /\ result.res = 0 /\ result.ret = "NiggliFailed"

KindsInOrder ==
    << "SpacegroupSearchFailed", "CellStandardizationFailed",
       "SymmetryOperationSearchFailed", "AtomsTooClose", "PointgroupNotFound",
       "NiggliFailed", "DelaunayFailed", "ArraySizeShortage" >>

\* C9: the codes 1..8 translate, in this order, to the eight kinds above, and
\* every other code (0, the negative ones, 99) translates to Unknown.
C9_TotalTranslation ==
    (result.op = "from") =>
        /\ result.ret \in SpglibError
        /\ (result.code \in 1..8) => (result.ret = KindsInOrder[result.code])
        /\ (result.code \notin 1..8) => (result.ret = "Unknown")

\* C9's case: the code of a Niggli failure has been translated.
C9_Witness ==
    result.op = "from" /\ result.code = 6 /\ result.ret = "NiggliFailed"

\* C10: standardize called again, with the same flags and precision, on the
\* Cell a successful standardize has left returns Ok and changes nothing.
C10_Idempotent ==
    [][ ( /\ result.op = "standardize" /\ result.ret = "Ok"
          /\ WellFormed(result.before)
          /\ result'.op = "standardize"
          /\ result'.to_primitive = result.to_primitive
          /\ result'.no_idealize = result.no_idealize
          /\ result'.symprec = result.symprec )
        => (result'.ret = "Ok" /\ cell' = cell) ]_vars

\* C11: after delaunay_reduce or niggli_reduce, whether it returned Ok or an
\* error, positions and types are what they were before the call.
C11_ReductionFrame ==
    (result.op \in {"delaunay_reduce", "niggli_reduce"}) =>
        /\ cell.positions = result.before.positions
        /\ cell.types = result.before.types

\* C11's case: a Delaunay reduction has replaced the lattice of a Cell that
\* has an atom away from the origin.
C11_Witness ==
    /\ result.op = "delaunay_reduce" /\ result.ret = "Ok"
    /\ cell.lattice # result.before.lattice
    /\ \E i \in DOMAIN cell.positions : cell.positions[i] # 0

\* C12: the count an engine call is given exceeds the length of no buffer of
\* that call: at most len(rotations) and len(translations) in
\* hall_number_from_symmetry, at most len(positions) and len(types) in
\* standardize and Dataset::new, whatever lengths the caller supplies.
C12_CountWithinBuffers ==
    /\ (result.op \in {"standardize", "Dataset::new"}) =>
          /\ result.call.n <= result.call.lenPositions
          /\ result.call.n <= result.call.lenTypes
    /\ (result.op = "hall_number_from_symmetry") =>
          /\ result.call.n <= result.call.lenRotations
          /\ result.call.n <= result.call.lenTranslations

====
